---------------------------- MODULE Spec2Model ----------------------------
(***************************************************************************)
(* Model of the offline spectral analysis of neurocapture                  *)
(* (src/src/neurocapture/analysis/eeg.py): an EEG session is constructed   *)
(* from a table and a band selection (EEG.__init__) and analysed           *)
(* (EEG.analyze).                                                          *)
(*                                                                         *)
(* Number representation.  TLC computes with integers, so every quantity   *)
(* is an exact integer in a stated unit:                                   *)
(*   time        ticks, TicksPerSec ticks to the second; the tables hold   *)
(*               even tick counts, so the mean of two time differences is  *)
(*               a whole number of ticks;                                  *)
(*   amplitude   whole units; the tables hold even amplitudes, so the mean *)
(*               of two amplitudes is whole;                               *)
(*   frequency   half-hertz (0.5 Hz = 1) for the band table and the filter *)
(*               range; a computed frequency vector carries its own        *)
(*               denominator;                                              *)
(*   ratios      a record [num, den].                                      *)
(* A table cell is [valid, v]: a cell that is missing or not a number has   *)
(* valid = FALSE, which is what pd.to_numeric(errors="coerce") turns into   *)
(* NaN.                                                                    *)
(***************************************************************************)
EXTENDS Integers, Sequences, FiniteSets, TLC

VARIABLES
    table,        \* the caller's DataFrame: a sequence of rows [time, amp]
    time_dtype,   \* the dtype of its time column
    band_type,    \* the band selection handed to the constructor
    pc,           \* "new": no session yet; "ready": constructed; "done": analysed;
                  \* "failed": the constructor raised
    self_df,      \* self.df, the normalized series of the session
    outcome,      \* how the last analyze() call ended
    stage,        \* the stage dict of the last analyze() call, as it was at exit
    locals,       \* the locals df, dt and t_reg of that call, as far as it assigned them
    welch,        \* the PSD signal.welch yields for this session's series
    psd,          \* a spectrum handed to the integrator: [f, pxx, band]
    power,        \* the three powers the integrator computed from psd
    x_reg,        \* a signal handed to _fft_denoise
    x_denoised,   \* the outputs of the successive _fft_denoise passes on x_reg
    columns,      \* the columns of a table handed to _deduce_columns: [name, dtype] each
    time_col,     \* the time_col argument of _deduce_columns: a name or "None"
    amplitude_col,\* its amplitude_col argument: a name or "None"
    deduced,      \* how the _deduce_columns call ended
    app,          \* the App: [controller, update_job, pc]; pc is "idle", or "join"
                  \* while on_stop waits in join()
    running,      \* AcquisitionController._running, the Event
    thread,       \* where the acquisition thread is in _run; "none" before start()
    sample,       \* s, the sample the driver's generator just yielded; 0 for none
    batch,        \* the list batch of _run
    queue,        \* AcquisitionController.queue, oldest batch first
    driver,       \* the driver: [kind, running, sending, opened, closed, yielded]
    taken,        \* how many samples _run appended to batch
    drained       \* the batches _drain_queue took off the queue, in order

session == <<table, time_dtype, band_type, pc, self_df, outcome, stage, locals, welch>>
bench == <<psd, power, x_reg, x_denoised>>
resolver == <<columns, time_col, amplitude_col, deduced>>
acquisition == <<app, running, thread, sample, batch, queue, driver, taken, drained>>
vars == <<session, bench, resolver, acquisition>>

\* no call of _deduce_columns is under way
ResolverIdle ==
    /\ columns = <<>>
    /\ time_col = "None"
    /\ amplitude_col = "None"
    /\ deduced = <<>>

\* no driver has been built
NoDriver == [kind |-> "none", running |-> FALSE, sending |-> FALSE,
             opened |-> 0, closed |-> 0, yielded |-> 0]

\* the App as constructed: no controller, no update job
AcquisitionIdle ==
    /\ app = [controller |-> FALSE, update_job |-> FALSE, pc |-> "idle"]
    /\ running = FALSE
    /\ thread = "none"
    /\ sample = 0
    /\ batch = <<>>
    /\ queue = <<>>
    /\ driver = NoDriver
    /\ taken = 0
    /\ drained = <<>>

\* a table cell holding the number v, and a cell that to_numeric coerces to NaN
Cell(v) == [valid |-> TRUE, v |-> v]
NaN == [valid |-> FALSE, v |-> 0]

----------------------------------------------------------------------------
(* Bounds of the model.                                                    *)

\* ticks per second: the time resolution of the tables
TicksPerSec == 4
\* longest table whose cells are all chosen freely
MaxSmallLen == 3
\* longest two-rate ramp table
MaxRamp == 16
\* largest frequency of a spectrum handed to the integrator on its own
MaxFreq == 4
\* largest power of such a spectrum
MaxPower == 2
\* largest magnitude of a sample handed to the denoiser on its own
MaxSample == 2
\* number of successive denoising passes
MaxPasses == 2
\* largest number of columns of a table handed to the column resolver
MaxCols == 3
\* largest value of a PSD bin that the estimator may yield
MaxPsd == 2
\* samples to a batch: AcquisitionController.batch_size, which App.on_start
\* sets to 64, scaled down
batch_size == 2
\* batches the controller queue holds: queue.Queue(maxsize=64), scaled down
maxsize == 2

----------------------------------------------------------------------------
(* Program constants.                                                      *)

\* eeg.py:14-21, the names of the enum members
EEGBandType == {"ALPHA", "BETA", "DELTA", "THETA", "KAPPA", "LAMBDA", "MU"}

\* eeg.py:14-21, the value (text label) of each member
BandValue(b) ==
    CASE b = "ALPHA" -> "alpha" [] b = "BETA" -> "beta" [] b = "DELTA" -> "delta"
      [] b = "THETA" -> "theta" [] b = "KAPPA" -> "kappa" [] b = "LAMBDA" -> "lambd"
      [] b = "MU" -> "mu"

\* eeg.py:34-42, the default band table, in half-hertz
eeg_band_ranges ==
    [b \in {"DELTA", "THETA", "ALPHA", "BETA", "MU"} |->
        CASE b = "DELTA" -> <<1, 8>>
          [] b = "THETA" -> <<8, 16>>
          [] b = "ALPHA" -> <<16, 26>>
          [] b = "BETA" -> <<26, 60>>
          [] b = "MU" -> <<16, 26>>]

\* eeg.py:45, the confining band, in half-hertz
filter_range == <<1, 80>>

\* line 48: fft_soft_threshold_factor = 3.0
fft_soft_threshold_factor == 3

\* eeg.py:105, gate A
MinCleanSamples == 8
\* eeg.py:132, gate B
MinFilteredSamples == 16

----------------------------------------------------------------------------
(* Helpers on numbers and sequences.                                       *)

Max(a, b) == IF a >= b THEN a ELSE b
Min(a, b) == IF a <= b THEN a ELSE b
Abs(a) == IF a >= 0 THEN a ELSE -a

\* the ascending arrangement of a sequence of integers
RECURSIVE SortInts(_)
SortInts(s) ==
    IF s = <<>> THEN <<>>
    ELSE LET rest == SortInts(Tail(s))
             h == Head(s)
             k == Cardinality({i \in 1..Len(rest) : rest[i] < h})
         IN SubSeq(rest, 1, k) \o <<h>> \o SubSeq(rest, k + 1, Len(rest))

\* the indices 1..n in order
Indices(n) == [i \in 1..n |-> i]

\* s without the entries equal to the entry before them
Distinct(s) ==
    LET idx == SelectSeq(Indices(Len(s)), LAMBDA i : i = 1 \/ s[i] # s[i - 1])
    IN [j \in 1..Len(idx) |-> s[idx[j]]]

\* numpy/pandas median: the middle value, or the mean of the two middle values
Median(s) ==
    LET o == SortInts(s)
        n == Len(o)
    IN IF n % 2 = 1 THEN o[(n + 1) \div 2]
       ELSE (o[n \div 2] + o[n \div 2 + 1]) \div 2

----------------------------------------------------------------------------
(* EEG.__init__, lines 61-71: the series normalizer.  In a column of dtype  *)
(* datetime64 a cell [valid, v] is the instant of tick v, and NaT when not  *)
(* valid.                                                                   *)

\* the dtypes of the columns
Dtypes == {"float64", "datetime64", "object"}

\* np.issubdtype(dtype, np.number) and np.issubdtype(dtype, np.datetime64)
IsNumber(dtype) == dtype = "float64"
IsDatetime(dtype) == dtype = "datetime64"

\* line 65: the IndexError of iloc[0] on a column without rows
NoFirstRow == [kind |-> "raise", error |-> "IndexError", at |-> "iloc"]

\* lines 65-66: the instants of the time column as seconds elapsed since the
\* instant of the first row; NaT, and any instant when the first row holds
\* NaT, becomes NaN
ElapsedSeconds(df) ==
    LET t0 == df[1].time
    IN [i \in 1..Len(df) |->
           [time |-> IF t0.valid /\ df[i].time.valid
                     THEN [valid |-> TRUE, v |-> df[i].time.v - t0.v]
                     ELSE [valid |-> FALSE, v |-> 0],
            amp |-> df[i].amp]]

\* to_numeric(errors="coerce") on both columns, then dropna(subset=["time", "amp"]):
\* the rows whose two cells are both numbers, as numbers, in table order
Normalize(df) ==
    LET kept == SelectSeq(df, LAMBDA r : r.time.valid /\ r.amp.valid)
    IN [i \in 1..Len(kept) |-> [time |-> kept[i].time.v, amp |-> kept[i].amp.v]]

----------------------------------------------------------------------------
(* EEG.analyze, lines 85-103: the series cleaner.                          *)

\* sort_values("amp", kind="mergesort"): the sort keyed on the wrong column
RECURSIVE SortValuesByAmp(_)
SortValuesByAmp(df) ==
    IF df = <<>> THEN <<>>
    ELSE LET rest == SortValuesByAmp(Tail(df))
             h == Head(df)
             k == Cardinality({i \in 1..Len(rest) : rest[i].amp < h.amp})
         IN SubSeq(rest, 1, k) \o <<h>> \o SubSeq(rest, k + 1, Len(rest))

\* sort_values("time", kind="mergesort"): stable ascending sort by time
RECURSIVE SortValues(_)
SortValues(df) ==
    IF df = <<>> THEN <<>>
    ELSE LET rest == SortValues(Tail(df))
             h == Head(df)
             k == Cardinality({i \in 1..Len(rest) : rest[i].time < h.time})
         IN SubSeq(rest, 1, k) \o <<h>> \o SubSeq(rest, k + 1, Len(rest))

\* the amplitudes of the rows at time t, in row order
GroupAmps(df, t) ==
    LET g == SelectSeq(df, LAMBDA r : r.time = t)
    IN [i \in 1..Len(g) |-> g[i].amp]

\* groupby("time").agg(amp=("amp", "first")): each group's first amplitude
GroupByFirst(df) ==
    LET keys == Distinct(SortInts([i \in 1..Len(df) |-> df[i].time]))
    IN [i \in 1..Len(keys) |-> [time |-> keys[i], amp |-> GroupAmps(df, keys[i])[1]]]

\* groupby("time", sort=True).agg(amp=("amp", "median"))
GroupByMedian(df) ==
    LET keys == Distinct(SortInts([i \in 1..Len(df) |-> df[i].time]))
    IN [i \in 1..Len(keys) |-> [time |-> keys[i], amp |-> Median(GroupAmps(df, keys[i]))]]

\* lines 99-102: keep the first row and every row later than the row before it
DropNonMonotonic(df) ==
    IF Len(df) >= 2
    THEN LET idx == SelectSeq(Indices(Len(df)),
                              LAMBDA i : i = 1 \/ df[i].time - df[i - 1].time > 0)
         IN [j \in 1..Len(idx) |-> df[idx[j]]]
    ELSE df

\* the cleaner without its groupby step
CleanWithoutGroupBy(df) ==
    LET sorted == SortValues(df)
        mono == DropNonMonotonic(sorted)
    IN [df |-> mono,
        stage |-> [duplicates_removed |-> 0,
                   nonmonotonic_removed |-> Len(sorted) - Len(mono)]]

\* lines 84-103: the cleaner on the normalized series df: the cleaned series
\* and the stage dict after it
Clean(df) ==
    LET sorted == SortValues(df)
        dedup == SortValues(GroupByMedian(sorted))
        mono == DropNonMonotonic(dedup)
    IN [df |-> mono,
        stage |-> [duplicates_removed |-> Len(sorted) - Len(dedup),
                   nonmonotonic_removed |-> Len(dedup) - Len(mono)]]

\* lines 85-103: the cleaned series
Cleaned(df) == Clean(df).df

\* gate A with the bound one too low: len(df) < 7
TooFewBelowSeven(n) == n < MinCleanSamples - 1

\* line 105: gate A
TooFewAfterCleaning(n) == n < MinCleanSamples

\* lines 106-110: the report of gate A
CleaningFailure(n) ==
    [ok |-> FALSE, reason |-> "not_enough_samples_after_cleaning", n |-> n]

----------------------------------------------------------------------------
(* Ratios.                                                                 *)

RECURSIVE GCD(_, _)
GCD(a, b) == IF b = 0 THEN Abs(a) ELSE GCD(Abs(b), Abs(a) % Abs(b))

\* the ratio n/d (d > 0) in lowest terms; n/0 is kept as it is
Ratio(n, d) ==
    LET g == GCD(n, d)
    IN IF d > 0 THEN [num |-> n \div g, den |-> d \div g] ELSE [num |-> n, den |-> d]

----------------------------------------------------------------------------
(* EEG.analyze, lines 112-124: the resampler.                              *)

\* df["time"].to_numpy(), line 113
Times(df) == [i \in 1..Len(df) |-> df[i].time]

\* np.diff(t), line 115
Diff(t) == [i \in 1..(Len(t) - 1) |-> t[i + 1] - t[i]]

\* the mean step, whatever the median step is
SamplingIntervalMean(t) == (t[Len(t)] - t[1]) \div Max(1, Len(t) - 1)

\* lines 115-117: the median step, or the mean step when the median is not
\* positive (an integer is always finite)
SamplingInterval(t) ==
    LET dt == Median(Diff(t))
    IN IF dt <= 0
       THEN (t[Len(t)] - t[1]) \div Max(1, Len(t) - 1)
       ELSE dt

\* the number of points of np.arange(t[0], t[-1], dt): no half-step tolerance
GridSizeNoTolerance(t, dt) ==
    IF dt > 0 /\ t[Len(t)] - t[1] > 0
    THEN (t[Len(t)] - t[1] + dt - 1) \div dt
    ELSE 0

\* the number of points of np.arange(start, stop, step): ceil((stop - start)/step),
\* here with start = t[0], stop = t[-1] + 0.5*dt, step = dt > 0 (line 119)
\* (no point when the step is not positive or the stop is not after the start)
GridSize(t, dt) ==
    IF dt > 0 /\ 2 * (t[Len(t)] - t[1]) + dt > 0
    THEN (2 * (t[Len(t)] - t[1]) + dt + 2 * dt - 1) \div (2 * dt)
    ELSE 0

\* line 119: t_reg = np.arange(t[0], t[-1] + 0.5*dt, dt)
RegularGrid(t, dt) == [k \in 1..GridSize(t, dt) |-> t[1] + (k - 1) * dt]

\* line 121: fs = 1.0 / dt, in hertz
SampleRate(dt) == Ratio(TicksPerSec, dt)

\* lines 122-124: the stage dict after the resampler
ResampleStage(stages, dt, n) ==
    [duplicates_removed |-> stages.duplicates_removed,
     nonmonotonic_removed |-> stages.nonmonotonic_removed,
     interpolation_dt |-> Ratio(dt, TicksPerSec),
     fs_estimated |-> SampleRate(dt),
     n_regular |-> n]

----------------------------------------------------------------------------
(* EEG._fft_denoise, lines 213-225.  A signal is [num, den]: the samples    *)
(* num[j] / den, in lowest terms.  A frequency coefficient is [re, im], a   *)
(* complex number with integer parts over the signal's den.  The transform  *)
(* is computed exactly for the lengths whose twiddle factors are powers of  *)
(* the imaginary unit.                                                      *)

\* the signal lengths with exact transforms
FftLengths == {1, 2, 4}

RECURSIVE GCDOfAll(_)
GCDOfAll(s) == IF s = <<>> THEN 0 ELSE GCD(Head(s), GCDOfAll(Tail(s)))

\* the signal of samples nums[j] / den, in lowest terms
Signal(nums, den) ==
    LET g == GCD(den, GCDOfAll(nums))
    IN [num |-> [j \in 1..Len(nums) |-> nums[j] \div g], den |-> den \div g]

\* exp(-2 pi i q / 4), q = 0..3
Unit(q) ==
    CASE q = 0 -> [re |-> 1, im |-> 0]
      [] q = 1 -> [re |-> 0, im |-> -1]
      [] q = 2 -> [re |-> -1, im |-> 0]
      [] q = 3 -> [re |-> 0, im |-> 1]

\* exp(-2 pi i e / n) for a length n that divides 4
Twiddle(n, e) == Unit((e * (4 \div n)) % 4)

\* the sum over j = from..n of x[j] * exp(-2 pi i (j - 1) k / n)
RECURSIVE DftSum(_, _, _)
DftSum(x, k, from) ==
    IF from > Len(x) THEN [re |-> 0, im |-> 0]
    ELSE LET w == Twiddle(Len(x), (from - 1) * k)
             rest == DftSum(x, k, from + 1)
         IN [re |-> x[from] * w.re + rest.re, im |-> x[from] * w.im + rest.im]

\* line 220: np.fft.rfft(x), the coefficients k = 0 .. n/2 of n samples
Rfft(x) == [i \in 1..(Len(x) \div 2 + 1) |-> DftSum(x, i - 1, 1)]

\* the squared magnitude of a coefficient
SqAbs(c) == c.re * c.re + c.im * c.im

\* np.median of magnitudes, by the squares sq of the magnitudes: the two
\* squares whose roots it averages (the middle one twice when there is one)
MiddlePair(sq) ==
    LET o == SortInts(sq)
        m == Len(o)
    IN IF m % 2 = 1 THEN <<o[(m + 1) \div 2], o[(m + 1) \div 2]>>
       ELSE <<o[m \div 2], o[m \div 2 + 1]>>

\* a variant of the mask that keeps only the coefficients strictly above the
\* threshold
StrictlyAboveThreshold(s, sq, factor) ==
    LET mid == MiddlePair(sq)
        l == 4 * s - factor * factor * (mid[1] + mid[2])
    IN /\ l >= 0
       /\ l * l > 4 * factor * factor * factor * factor * mid[1] * mid[2]

\* lines 221-222: np.abs(X) >= np.median(np.abs(X)) * factor for a coefficient
\* of squared magnitude s among the squared magnitudes sq.  With the median
\* (sqrt a + sqrt b) / 2 this is 2 sqrt s >= factor (sqrt a + sqrt b), that is
\* l >= 0 and l^2 >= 4 factor^4 a b for l = 4 s - factor^2 (a + b).
AtLeastThreshold(s, sq, factor) ==
    LET mid == MiddlePair(sq)
        l == 4 * s - factor * factor * (mid[1] + mid[2])
    IN /\ l >= 0
       /\ l * l >= 4 * factor * factor * factor * factor * mid[1] * mid[2]

\* line 223: X * mask
MaskCoefficients(X, factor) ==
    LET sq == [i \in 1..Len(X) |-> SqAbs(X[i])]
    IN [i \in 1..Len(X) |->
           IF AtLeastThreshold(sq[i], sq, factor) THEN X[i] ELSE [re |-> 0, im |-> 0]]

\* line 224: n times sample j (j = 0..n-1) of np.fft.irfft(X, n): the constant
\* term, the Nyquist term of an even length (real parts only), and twice the
\* real part of every coefficient between them times exp(+2 pi i j k / n)
IrfftSample(X, n, j) ==
    LET between == {k \in 1..(n - 1) : 2 * k < n}
        term(k) == LET w == Twiddle(n, j * k)
                   IN X[k + 1].re * w.re + X[k + 1].im * w.im
        RECURSIVE sum(_)
        sum(S) == IF S = {} THEN 0
                  ELSE LET k == CHOOSE k \in S : TRUE IN term(k) + sum(S \ {k})
    IN X[1].re
       + (IF n % 2 = 0 THEN (IF j % 2 = 0 THEN 1 ELSE -1) * X[n \div 2 + 1].re ELSE 0)
       + 2 * sum(between)

\* line 224: np.fft.irfft(X, n) of coefficients over den
Irfft(X, n, den) == Signal([i \in 1..n |-> IrfftSample(X, n, i - 1)], den * n)

\* lines 220-225
FftDenoise(x, factor) ==
    LET X == Rfft(x.num)
        X_d == MaskCoefficients(X, factor)
    IN Irfft(X_d, Len(x.num), x.den)

----------------------------------------------------------------------------
(* EEG._bandpass_zero_phase, lines 227-236.  The samples themselves are    *)
(* not modelled from the resampler on: a sequence x is carried by its      *)
(* length, which is all that gate B and the estimator's shape depend on.   *)

\* signal.butter(..., output="ba") returns the pair (b, a)
ButterOutputs == 2
\* line 235 unpacks the result into b, a, _
UnpackTargets == 3

\* lines 230-231: lo / nyq clamped from below by 1e-6, times fs.num * 10^6
LowEdge(fs, band) == Max(fs.num, band[1] * fs.den * 1000000)

\* lines 230, 232: hi / nyq clamped from above by 0.999, times fs.num * 10^6
HighEdge(fs, band) == Min(999000 * fs.num, band[2] * fs.den * 1000000)

\* line 233: the filter is skipped
PassThrough(fs, band) == HighEdge(fs, band) <= LowEdge(fs, band)

\* the result of _bandpass_zero_phase on n samples: a sequence of n samples,
\* or the ValueError of unpacking butter's pair into three names
Bandpass(n, fs, band) ==
    IF PassThrough(fs, band)
    THEN [raised |-> FALSE, size |-> n]
    ELSE IF ButterOutputs # UnpackTargets
         THEN [raised |-> TRUE, size |-> 0]
         ELSE [raised |-> FALSE, size |-> n]

\* line 132: gate B
TooFewAfterFilters(n) == n < MinFilteredSamples

\* lines 133-137: the report of gate B
FilterFailure(n) ==
    [ok |-> FALSE, reason |-> "not_enough_samples_after_filters", n |-> n]

----------------------------------------------------------------------------
(* EEG.analyze, lines 139-141: the spectral estimator.                     *)

\* line 140: nperseg = int(min(2048, max(256, 2 * fs)))
SegmentLength(fs) == Min(2048, Max(256, (2 * fs.num) \div fs.den))

\* signal.welch shortens a segment longer than the input to the input
WelchSegment(n, fs) == Min(SegmentLength(fs), n)

\* the number of frequencies of a one-sided spectrum of WelchSegment(n, fs) points
WelchBins(n, fs) == WelchSegment(n, fs) \div 2 + 1

\* line 141: the frequency vector k * fs / nperseg, k = 0..nperseg/2, as the
\* numerators f.num[i] over the common denominator f.den, in half-hertz
WelchFrequencies(n, fs) ==
    [num |-> [i \in 1..WelchBins(n, fs) |-> 2 * (i - 1) * fs.num],
     den |-> fs.den * WelchSegment(n, fs)]

\* line 141: the power vectors signal.welch may yield on m frequencies.  Its
\* arithmetic is not modelled, only that the powers are non-negative: the
\* vectors here are zero but for one frequency j of power v.
WelchOutputs(m) ==
    {[i \in 1..m |-> IF i = j THEN v ELSE 0] : j \in 1..m, v \in 0..MaxPsd}

----------------------------------------------------------------------------
(* EEG.analyze, lines 143-147: the band-power integrator, over a frequency *)
(* vector f (integers) and a power vector y.                               *)

\* the rectangle rule on the left ends, doubled: the sum of (x[i+1]-x[i]) * 2 y[i]
RECURSIVE LeftRectangle2(_, _)
LeftRectangle2(y, x) ==
    IF Len(x) < 2 THEN 0
    ELSE (x[2] - x[1]) * 2 * y[1] + LeftRectangle2(Tail(y), Tail(x))

\* scipy.integrate.trapezoid(y, x), doubled: the sum of (x[i+1]-x[i]) * (y[i]+y[i+1])
RECURSIVE Trapezoid2(_, _)
Trapezoid2(y, x) ==
    IF Len(x) < 2 THEN 0
    ELSE (x[2] - x[1]) * (y[1] + y[2]) + Trapezoid2(Tail(y), Tail(x))

\* a variant of the mask with the upper edge included
BandMaskClosed(f, lo, hi) == {i \in 1..Len(f) : f[i] >= lo /\ f[i] <= hi}

\* line 145: the indices i with lo <= f[i] < hi
BandMask(f, lo, hi) == {i \in 1..Len(f) : f[i] >= lo /\ f[i] < hi}

\* v[mask]: the entries of v at the indices of mask, in order
Masked(v, mask) ==
    LET idx == SelectSeq(Indices(Len(v)), LAMBDA i : i \in mask)
    IN [j \in 1..Len(idx) |-> v[idx[j]]]

\* line 144, doubled
TotalPower2(pxx, f) == Trapezoid2(pxx, f)

\* line 146, doubled
BandPower2(pxx, f, lo, hi) ==
    LET mask == BandMask(f, lo, hi)
    IN IF Cardinality(mask) >= 2
       THEN Trapezoid2(Masked(pxx, mask), Masked(f, mask))
       ELSE 0

\* a / b for ratios a and b > 0
Quotient(a, b) == Ratio(a.num * b.den, a.den * b.num)

\* a variant of line 147 that divides whatever the total power is
RelativePowerUnguarded(band_power, total_power) == Quotient(band_power, total_power)

\* line 147
RelativePower(band_power, total_power) ==
    IF total_power.num > 0 THEN Quotient(band_power, total_power) ELSE Ratio(0, 1)

\* lines 144-147 on the frequencies fnum[i] / fden (half-hertz) and the band
\* <<lo, hi>> (half-hertz): the three powers of the report.  A doubled integral
\* over numerators in half-hertz is 4 * fden times the integral over hertz.
Powers(pxx, fnum, fden, band) ==
    LET total == Ratio(TotalPower2(pxx, fnum), 4 * fden)
        inband == Ratio(BandPower2(pxx, fnum, band[1] * fden, band[2] * fden), 4 * fden)
    IN [total_power |-> total,
        band_power |-> inband,
        relative_band_power |-> RelativePower(inband, total)]

----------------------------------------------------------------------------
(* EEG.analyze, lines 75-162, as a function of the session's series df,    *)
(* its band selection b and the power vector w the estimator yields.       *)

\* lines 76-80: the ValueError naming the band
UndefinedBand(b) ==
    [kind |-> "raise", error |-> "ValueError", at |-> "band", band |-> BandValue(b), name |-> b]

\* line 235: the ValueError of the unpacking
UnpackError == [kind |-> "raise", error |-> "ValueError", at |-> "butter"]

Returned(report) == [kind |-> "return", report |-> report]

NoStage == <<>>
NoLocals == <<>>

\* the success report without its duration_s field
ReportWithoutDuration(b, fs, grid, n, w, f, stages) ==
    LET p == Powers(w, f.num, f.den, eeg_band_ranges[b])
    IN [ok |-> TRUE,
        band |-> BandValue(b),
        band_range_hz |-> eeg_band_ranges[b],
        fs_hz |-> fs,
        n_samples |-> n,
        total_power |-> p.total_power,
        band_power |-> p.band_power,
        relative_band_power |-> p.relative_band_power,
        psd_f |-> f,
        psd_pxx |-> w,
        stages |-> stages]

\* lines 149-162: the success report
SuccessReport(b, fs, grid, n, w, f, stages) ==
    LET p == Powers(w, f.num, f.den, eeg_band_ranges[b])
    IN [ok |-> TRUE,
        band |-> BandValue(b),
        band_range_hz |-> eeg_band_ranges[b],
        fs_hz |-> fs,
        duration_s |-> Ratio(grid[Len(grid)] - grid[1], TicksPerSec),
        n_samples |-> n,
        total_power |-> p.total_power,
        band_power |-> p.band_power,
        relative_band_power |-> p.relative_band_power,
        psd_f |-> f,
        psd_pxx |-> w,
        stages |-> stages]

\* lines 112-137: the run from the resampler to gate B, for the cleaned series
\* c: either the way the run ends there (ended), or what the estimator is
\* handed (n samples at the rate fs, on the grid)
Resampled(c, stages) ==
    LET t == Times(c)
        dt == SamplingInterval(t)
        grid == RegularGrid(t, dt)
        fs == SampleRate(dt)
        st == ResampleStage(stages, dt, Len(grid))
        x_bp == Bandpass(Len(grid), fs, filter_range)
        loc == [df |-> c, dt |-> dt, t_reg |-> grid]
    IN IF x_bp.raised
       THEN [ended |-> TRUE, outcome |-> UnpackError, stage |-> st, locals |-> loc]
       ELSE IF TooFewAfterFilters(x_bp.size)
       THEN [ended |-> TRUE, outcome |-> Returned(FilterFailure(x_bp.size)), stage |-> st,
             locals |-> loc]
       ELSE [ended |-> FALSE, stage |-> st, locals |-> loc, n |-> x_bp.size, fs |-> fs,
             grid |-> grid]

\* lines 84-137: the run from the cleaner to gate B
Filtered(df) ==
    LET c == Clean(df)
    IN IF TooFewAfterCleaning(Len(c.df))
       THEN [ended |-> TRUE, outcome |-> Returned(CleaningFailure(Len(c.df))),
             stage |-> c.stage, locals |-> [df |-> c.df]]
       ELSE Resampled(c.df, c.stage)

\* the run up to the estimator with the band looked up only after gate A
BandCheckedAfterGateA(df, b) ==
    LET c == Clean(df)
    IN IF TooFewAfterCleaning(Len(c.df))
       THEN [ended |-> TRUE, outcome |-> Returned(CleaningFailure(Len(c.df))),
             stage |-> c.stage, locals |-> [df |-> c.df]]
       ELSE IF b \notin DOMAIN eeg_band_ranges
       THEN [ended |-> TRUE, outcome |-> UndefinedBand(b), stage |-> c.stage,
             locals |-> [df |-> c.df]]
       ELSE Resampled(c.df, c.stage)

\* lines 75-137: the run up to the estimator
BeforeEstimator(df, b) ==
    IF b \notin DOMAIN eeg_band_ranges
    THEN [ended |-> TRUE, outcome |-> UndefinedBand(b), stage |-> NoStage,
          locals |-> NoLocals]
    ELSE Filtered(df)

\* lines 139-162: the estimator's power vector w, the integrator and the report
AfterEstimator(pre, b, w) ==
    Returned(SuccessReport(b, pre.fs, pre.grid, pre.n, w,
                           WelchFrequencies(pre.n, pre.fs), pre.stage))

----------------------------------------------------------------------------
(* The tables a caller may hand to the constructor.                        *)

\* short tables: every cell chosen freely
SmallRows ==
    [time : {Cell(0), Cell(2), NaN}, amp : {Cell(-2), Cell(0), Cell(4), NaN}]

SmallTables(n) == [1..n -> SmallRows]

\* long tables: n rows whose first (n-1) \div 2 time steps are a ticks and whose
\* other steps are b ticks, with amplitudes that vary from row to row
RampSteps == {2, 4, 6}

Ramp(n, a, b) ==
    LET h == (n - 1) \div 2
    IN [i \in 1..n |->
           [time |-> Cell(2 + a * Min(i - 1, h) + b * Max(0, i - 1 - h)),
            amp |-> Cell(2 * ((i * i) % 5) - 4)]]

\* one more row after the ramp: before it, on it, between its rows, or invalid
ExtraRows ==
    [time : {Cell(0), Cell(2), Cell(4), NaN}, amp : {Cell(4)}]
        \cup {[time |-> Cell(4), amp |-> NaN]}

RampTables(n) ==
    {Ramp(n, a, b) \o e : a \in RampSteps, b \in RampSteps,
                          e \in {<<>>} \cup {<<r>> : r \in ExtraRows}}

----------------------------------------------------------------------------
(* The session: construction, then any number of analyses.                 *)

NoOutcome == [kind |-> "none"]

Init ==
    /\ \/ \E n \in 0..MaxSmallLen : table \in SmallTables(n)
       \/ \E n \in 0..MaxRamp : table \in RampTables(n)
    /\ band_type \in EEGBandType
    /\ pc = "new"
    /\ self_df = <<>>
    /\ time_dtype = "float64"
    /\ outcome = NoOutcome
    /\ stage = NoStage
    /\ locals = NoLocals
    /\ welch = <<>>
    /\ psd = <<>>
    /\ power = <<>>
    /\ x_reg = <<>>
    /\ x_denoised = <<>>
    /\ ResolverIdle
    /\ AcquisitionIdle

\* EEG.__init__, lines 57-71, with the two columns named by the caller
Construct ==
    /\ pc = "new"
    /\ IF IsDatetime(time_dtype) /\ table = <<>>
       THEN /\ pc' = "failed"
            /\ outcome' = NoFirstRow
            /\ UNCHANGED self_df
       ELSE /\ pc' = "ready"
            /\ self_df' = Normalize(IF IsDatetime(time_dtype)
                                    THEN ElapsedSeconds(table) ELSE table)
            /\ UNCHANGED outcome
    /\ UNCHANGED <<table, time_dtype, band_type, stage, locals, welch>>
    /\ UNCHANGED <<bench, resolver, acquisition>>

\* an analysis that sorts the session's series in place (sort_values with
\* inplace=True at line 85)
AnalyzeInPlace ==
    /\ pc \in {"ready", "done"}
    /\ LET pre == BeforeEstimator(self_df, band_type)
       IN \E w \in (IF pre.ended \/ welch # <<>>
                    THEN {welch}
                    ELSE WelchOutputs(WelchBins(pre.n, pre.fs))) :
             /\ outcome' = IF pre.ended THEN pre.outcome ELSE AfterEstimator(pre, band_type, w)
             /\ stage' = pre.stage
             /\ locals' = pre.locals
             /\ welch' = w
             /\ self_df' = IF band_type \in DOMAIN eeg_band_ranges
                           THEN SortValues(self_df) ELSE self_df
    /\ pc' = "done"
    /\ UNCHANGED <<table, time_dtype, band_type>>
    /\ UNCHANGED <<bench, resolver, acquisition>>

\* EEG.analyze, lines 75-162.  The estimator is a function of the series: the
\* power vector it yields is chosen at the session's first run that reaches it
\* and is the same at every later run.
Analyze ==
    /\ pc \in {"ready", "done"}
    /\ LET pre == BeforeEstimator(self_df, band_type)
       IN \E w \in (IF pre.ended \/ welch # <<>>
                    THEN {welch}
                    ELSE WelchOutputs(WelchBins(pre.n, pre.fs))) :
             /\ outcome' = IF pre.ended THEN pre.outcome ELSE AfterEstimator(pre, band_type, w)
             /\ stage' = pre.stage
             /\ locals' = pre.locals
             /\ welch' = w
    /\ pc' = "done"
    /\ UNCHANGED <<table, time_dtype, band_type, self_df>>
    /\ UNCHANGED <<bench, resolver, acquisition>>

Next == Construct \/ Analyze

Spec == Init /\ [][Next]_vars

\* the sessions on the short tables with a time column of any dtype
InitTyped ==
    /\ \E n \in 0..MaxSmallLen : table \in SmallTables(n)
    /\ time_dtype \in Dtypes
    /\ band_type \in {"ALPHA", "KAPPA"}
    /\ pc = "new"
    /\ self_df = <<>>
    /\ outcome = NoOutcome
    /\ stage = NoStage
    /\ locals = NoLocals
    /\ welch = <<>>
    /\ psd = <<>>
    /\ power = <<>>
    /\ x_reg = <<>>
    /\ x_denoised = <<>>
    /\ ResolverIdle
    /\ AcquisitionIdle

SpecTyped == InitTyped /\ [][Next]_vars

----------------------------------------------------------------------------
(* The integrator on its own (EEG.analyze, lines 143-147): any non-negative *)
(* power vector over any strictly increasing frequency vector and any band  *)
(* interval, frequencies and band edges in the same integer unit.           *)

\* the elements of a set of integers in ascending order
RECURSIVE Ascending(_)
Ascending(S) ==
    IF S = {} THEN <<>>
    ELSE LET lowest == CHOOSE v \in S : \A u \in S : v <= u
         IN <<lowest>> \o Ascending(S \ {lowest})

\* the strictly increasing frequency vectors over 0..MaxFreq
FrequencyVectors == {Ascending(S) : S \in (SUBSET (0..MaxFreq)) \ {{}}}

\* the band intervals lo < hi with edges up to MaxFreq + 1
BandIntervals == {b \in (0..MaxFreq) \X (1..(MaxFreq + 1)) : b[1] < b[2]}

\* the non-negative power vectors on n frequencies
PowerVectors(n) == [1..n -> 0..MaxPower]

InitPower ==
    /\ \E f \in FrequencyVectors, b \in BandIntervals :
          \E p \in PowerVectors(Len(f)) :
             psd = [f |-> f, pxx |-> p, band |-> b]
    /\ power = <<>>
    /\ table = <<>>
    /\ band_type = "ALPHA"
    /\ pc = "new"
    /\ self_df = <<>>
    /\ time_dtype = "float64"
    /\ outcome = NoOutcome
    /\ stage = NoStage
    /\ locals = NoLocals
    /\ welch = <<>>
    /\ x_reg = <<>>
    /\ x_denoised = <<>>
    /\ ResolverIdle
    /\ AcquisitionIdle

\* lines 144-147 on the spectrum psd
Integrate ==
    /\ power = <<>>
    /\ power' = Powers(psd.pxx, psd.f, 1, psd.band)
    /\ UNCHANGED <<psd, x_reg, x_denoised>>
    /\ UNCHANGED <<session, resolver, acquisition>>

NextPower == Integrate

SpecPower == InitPower /\ [][NextPower]_vars

----------------------------------------------------------------------------
(* The denoiser on its own (EEG._fft_denoise, lines 213-225): successive    *)
(* passes over a signal of whole samples, each pass on the output of the    *)
(* pass before it, with the default factor.                                 *)

\* the signals of n whole samples
Signals(n) == {[num |-> s, den |-> 1] : s \in [1..n -> (-MaxSample)..MaxSample]}

InitDenoise ==
    /\ \E n \in FftLengths : x_reg \in Signals(n)
    /\ x_denoised = <<>>
    /\ table = <<>>
    /\ band_type = "ALPHA"
    /\ pc = "new"
    /\ self_df = <<>>
    /\ time_dtype = "float64"
    /\ outcome = NoOutcome
    /\ stage = NoStage
    /\ locals = NoLocals
    /\ welch = <<>>
    /\ psd = <<>>
    /\ power = <<>>
    /\ ResolverIdle
    /\ AcquisitionIdle

\* line 127, the call of _fft_denoise, here on the output of the last pass
Denoise ==
    /\ Len(x_denoised) < MaxPasses
    /\ LET x == IF x_denoised = <<>> THEN x_reg ELSE x_denoised[Len(x_denoised)]
       IN x_denoised' = Append(x_denoised, FftDenoise(x, fft_soft_threshold_factor))
    /\ UNCHANGED <<psd, power, x_reg>>
    /\ UNCHANGED <<session, resolver, acquisition>>

NextDenoise == Denoise

SpecDenoise == InitDenoise /\ [][NextDenoise]_vars

----------------------------------------------------------------------------
(* EEG._deduce_columns, lines 166-211, on the columns of a table: a column  *)
(* is [name, dtype].  The Cyrillic names of the source are written in Latin *)
(* transliteration with their letter case kept: "Vremya" has the capital    *)
(* first letter of the source's entry and "A0 (V)" its capital unit letter. *)

\* Python's None
None == "None"

\* the column names of the tables
ColumnNames == {"time", "Time", "ms", "Vremya (s)", "amp", "A0", "x"}

\* str.lower() on those names and on the entries of the two lists below
Lower(c) ==
    CASE c = "Time" -> "time"
      [] c = "Vremya (s)" -> "vremya (s)"
      [] c = "A0" -> "a0"
      [] c = "Vremya" -> "vremya"
      [] c = "A0 (V)" -> "a0 (v)"
      [] OTHER -> c

\* line 179
priority ==
    <<"time", "t", "timestamp", "sec", "seconds", "ms", "millis", "Vremya", "Vremya (s)">>

\* line 198
heuristic_order ==
    <<"amp", "amplitude", "value", "signal", "eeg", "ch1", "channel1", "A0", "A0 (V)">>

\* lines 180 and 199: {c.lower(): c for c in candidates}[key], None without
\* the key; of two names with the same lower-case form the later one stays
Lowered(candidates, key) ==
    LET at == {i \in 1..Len(candidates) : Lower(candidates[i]) = key}
    IN IF at = {} THEN None ELSE candidates[CHOOSE i \in at : \A j \in at : j <= i]

\* lines 181-185 and 200-204: the column of the first entry of order, from
\* entry from on, that is a key of the lowered names
RECURSIVE FirstInOrder(_, _, _)
FirstInOrder(order, candidates, from) ==
    IF from > Len(order) THEN None
    ELSE IF Lowered(candidates, order[from]) # None
         THEN Lowered(candidates, order[from])
         ELSE FirstInOrder(order, candidates, from + 1)

\* the names of a sequence of columns
Names(cols) == [i \in 1..Len(cols) |-> cols[i].name]

\* lines 178-194: the time column deduced, None when line 193 raises
DeduceTime(cols) ==
    LET chosen_time == FirstInOrder(priority, Names(cols), 1)
        typed == SelectSeq(cols, LAMBDA c : IsNumber(c.dtype) \/ IsDatetime(c.dtype))
    IN IF chosen_time # None THEN chosen_time
       ELSE IF typed # <<>> THEN typed[1].name
       ELSE None

\* lines 197-209: the amplitude column deduced, None when line 208 raises
DeduceAmplitude(cols, time) ==
    LET numeric_cols == Names(SelectSeq(cols, LAMBDA c : IsNumber(c.dtype) /\ c.name # time))
        chosen_amp == FirstInOrder(heuristic_order, numeric_cols, 1)
    IN IF chosen_amp # None THEN chosen_amp
       ELSE IF numeric_cols # <<>> THEN numeric_cols[1]
       ELSE None

\* lines 193 and 208: the column-resolution errors
CouldNotDeduce(what) == [kind |-> "raise", error |-> "ValueError", at |-> what]

\* lines 177-211
DeduceColumns(cols, time, amplitude) ==
    LET t == IF time = None THEN DeduceTime(cols) ELSE time
        a == IF amplitude = None THEN DeduceAmplitude(cols, t) ELSE amplitude
    IN IF t = None THEN CouldNotDeduce("time")
       ELSE IF a = None THEN CouldNotDeduce("amplitude")
       ELSE [kind |-> "return", time |-> t, amplitude |-> a]

\* the tables of k columns with distinct names
Frames(k) ==
    {cols \in [1..k -> [name : ColumnNames, dtype : Dtypes]] :
        \A i, j \in 1..k : i # j => cols[i].name # cols[j].name}

\* a call names no column, or names the first column as the time column, or
\* the last one as the amplitude column
InitColumns ==
    /\ \E k \in 0..MaxCols : columns \in Frames(k)
    /\ time_col \in {None} \cup {columns[i].name : i \in {1} \cap DOMAIN columns}
    /\ amplitude_col \in {None} \cup {columns[i].name : i \in {Len(columns)} \cap DOMAIN columns}
    /\ deduced = <<>>
    /\ table = <<>>
    /\ band_type = "ALPHA"
    /\ pc = "new"
    /\ self_df = <<>>
    /\ time_dtype = "float64"
    /\ outcome = NoOutcome
    /\ stage = NoStage
    /\ locals = NoLocals
    /\ welch = <<>>
    /\ psd = <<>>
    /\ power = <<>>
    /\ x_reg = <<>>
    /\ x_denoised = <<>>
    /\ AcquisitionIdle

\* line 60, the call of _deduce_columns
Deduce ==
    /\ deduced = <<>>
    /\ deduced' = DeduceColumns(columns, time_col, amplitude_col)
    /\ UNCHANGED <<columns, time_col, amplitude_col>>
    /\ UNCHANGED <<session, bench, acquisition>>

NextColumns == Deduce

SpecColumns == InitColumns /\ [][NextColumns]_vars

----------------------------------------------------------------------------
(* Live acquisition (src/src/neurocapture/acquire/acquire.py, app.py and    *)
(* io/): App.on_start builds a driver and a controller and starts the       *)
(* acquisition thread, which runs _run; the Tk main thread runs the App's   *)
(* handlers.  A sample is its position in the driver's stream, counted      *)
(* from 1; a batch is a sequence of samples.                                *)

\* the drivers whose code is in io/: SyntheticDriver and SerialDriver
DriverKinds == {"synthetic", "serial"}

\* samples a driver yields to a running controller: enough to fill the queue,
\* complete one batch more and begin the next
MaxYield == (maxsize + 1) * batch_size + 1

InitAcquire ==
    /\ AcquisitionIdle
    /\ ResolverIdle
    /\ table = <<>>
    /\ band_type = "ALPHA"
    /\ pc = "new"
    /\ self_df = <<>>
    /\ time_dtype = "float64"
    /\ outcome = NoOutcome
    /\ stage = NoStage
    /\ locals = NoLocals
    /\ welch = <<>>
    /\ psd = <<>>
    /\ power = <<>>
    /\ x_reg = <<>>
    /\ x_denoised = <<>>

\* App.on_start, with AcquisitionController.__init__ and start(): a new
\* driver, a new empty queue, the Event set, the thread started, and the
\* periodic update scheduled (its first run finds the queue empty)
OnStart ==
    /\ ~app.controller
    /\ app.pc = "idle"
    /\ \E kind \in DriverKinds :
          driver' = [kind |-> kind, running |-> FALSE, sending |-> TRUE,
                     opened |-> 0, closed |-> 0, yielded |-> 0]
    /\ app' = [controller |-> TRUE, update_job |-> TRUE, pc |-> "idle"]
    /\ running' = TRUE
    /\ thread' = "open"
    /\ sample' = 0
    /\ batch' = <<>>
    /\ queue' = <<>>
    /\ taken' = 0
    /\ drained' = <<>>
    /\ UNCHANGED <<session, bench, resolver>>

\* _run, lines 30-31: driver.open() succeeds
Open ==
    /\ thread = "open"
    /\ driver' = [driver EXCEPT !.running = TRUE, !.opened = @ + 1]
    /\ batch' = <<>>
    /\ thread' = "next"
    /\ UNCHANGED <<app, running, sample, queue, taken, drained>>
    /\ UNCHANGED <<session, bench, resolver>>

\* _run, line 30: SerialDriver.open raises RuntimeError, which is outside
\* the try statement and ends the thread
OpenFails ==
    /\ thread = "open"
    /\ driver.kind = "serial"
    /\ thread' = "dead"
    /\ UNCHANGED <<app, running, sample, batch, queue, driver, taken, drained>>
    /\ UNCHANGED <<session, bench, resolver>>

\* _run, line 33: the generator yields the next sample.  SyntheticDriver
\* yields one every dt; SerialDriver yields one when the device has sent a
\* line, and goes round its while loop without yielding when it has not.
\* Both loop on the driver's own flag, which only close() clears.  A running
\* controller is given MaxYield samples at most.
Yield ==
    /\ thread = "next"
    /\ driver.running
    /\ driver.sending
    /\ driver.yielded < MaxYield \/ ~running
    /\ sample' = driver.yielded + 1
    /\ driver' = [driver EXCEPT !.yielded = @ + 1]
    /\ thread' = "got"
    /\ UNCHANGED <<app, running, batch, queue, taken, drained>>
    /\ UNCHANGED <<session, bench, resolver>>

\* the serial device stops sending lines
Silence ==
    /\ driver.kind = "serial"
    /\ driver.sending
    /\ thread \notin {"none", "dead"}
    /\ driver' = [driver EXCEPT !.sending = FALSE]
    /\ UNCHANGED <<app, running, thread, sample, batch, queue, taken, drained>>
    /\ UNCHANGED <<session, bench, resolver>>

\* SerialDriver.iter_samples, lines 86-91: a read raises, the generator
\* breaks out of its loop and the for statement of _run ends
ReadError ==
    /\ thread = "next"
    /\ driver.kind = "serial"
    /\ driver.running
    /\ thread' = "finally"
    /\ UNCHANGED <<app, running, sample, batch, queue, driver, taken, drained>>
    /\ UNCHANGED <<session, bench, resolver>>

\* _run, lines 34-38: the flag is read once for each sample yielded
Receive ==
    /\ thread = "got"
    /\ IF ~running
       THEN /\ thread' = "finally"
            /\ UNCHANGED <<batch, taken>>
       ELSE /\ batch' = Append(batch, sample)
            /\ taken' = taken + 1
            /\ thread' = IF Len(batch') >= batch_size THEN "put" ELSE "next"
    /\ sample' = 0
    /\ UNCHANGED <<app, running, queue, driver, drained>>
    /\ UNCHANGED <<session, bench, resolver>>

\* _run, lines 39-40: queue.put blocks while the queue is full
Put ==
    /\ thread = "put"
    /\ Len(queue) < maxsize
    /\ queue' = Append(queue, batch)
    /\ batch' = <<>>
    /\ thread' = "next"
    /\ UNCHANGED <<app, running, sample, driver, taken, drained>>
    /\ UNCHANGED <<session, bench, resolver>>

\* _run, lines 43-44: driver.close(), and the thread ends; its batch goes
\* with it
Close ==
    /\ thread = "finally"
    /\ driver' = [driver EXCEPT !.running = FALSE, !.closed = @ + 1]
    /\ batch' = <<>>
    /\ thread' = "dead"
    /\ UNCHANGED <<app, running, sample, queue, taken, drained>>
    /\ UNCHANGED <<session, bench, resolver>>

\* App._update with _drain_queue, run by the scheduled job on the main
\* thread: get_nowait until the queue is empty
Update ==
    /\ app.update_job
    /\ app.pc = "idle"
    /\ drained' = drained \o queue
    /\ queue' = <<>>
    /\ UNCHANGED <<app, running, thread, sample, batch, driver, taken>>
    /\ UNCHANGED <<session, bench, resolver>>

\* App.on_stop, lines 227-233: the update job is cancelled, stop() clears
\* the Event, and the main thread waits in join()
OnStop ==
    /\ app.controller
    /\ app.pc = "idle"
    /\ app' = [app EXCEPT !.update_job = FALSE, !.pc = "join"]
    /\ running' = FALSE
    /\ UNCHANGED <<thread, sample, batch, queue, driver, taken, drained>>
    /\ UNCHANGED <<session, bench, resolver>>

\* App.on_stop, lines 233-238: join() returns once the thread has ended, and
\* the controller is let go of, its queue with it
Joined ==
    /\ app.pc = "join"
    /\ thread = "dead"
    /\ app' = [app EXCEPT !.controller = FALSE, !.pc = "idle"]
    /\ UNCHANGED <<running, thread, sample, batch, queue, driver, taken, drained>>
    /\ UNCHANGED <<session, bench, resolver>>

\* the steps of the acquisition thread that need nothing but processor time
Run == Open \/ Yield \/ Receive \/ Put \/ Close

NextAcquire ==
    \/ OnStart
    \/ Open
    \/ OpenFails
    \/ Yield
    \/ Silence
    \/ ReadError
    \/ Receive
    \/ Put
    \/ Close
    \/ Update
    \/ OnStop
    \/ Joined

SpecAcquire == InitAcquire /\ [][NextAcquire]_vars

\* the scheduler runs the acquisition thread whenever it can take a step,
\* and the main thread returns from join() once it can
SpecAcquireFair == SpecAcquire /\ WF_vars(Run) /\ WF_vars(Joined)

----------------------------------------------------------------------------
(* Properties of the session.                                              *)

Registered == band_type \in DOMAIN eeg_band_ranges
Analysed == pc = "done"
ReturnedReport == outcome.kind = "return"
Succeeded == Analysed /\ ReturnedReport /\ outcome.report.ok

\* the last run got as far as the cleaner, and as far as the resampler
RanCleaner == Analysed /\ "df" \in DOMAIN locals
RanResampler == Analysed /\ "t_reg" \in DOMAIN locals

\* C1, as the code has it: with a registered band, a cleaned series of fewer
\* than 8 samples makes analyze return {ok: false, reason:
\* "not_enough_samples_after_cleaning", n: cleaned count}.
C1_GateA ==
    (Analysed /\ Registered) =>
        /\ RanCleaner
        /\ Len(locals.df) < 8 =>
              outcome = [kind |-> "return",
                         report |-> [ok |-> FALSE,
                                     reason |-> "not_enough_samples_after_cleaning",
                                     n |-> Len(locals.df)]]

\* C1 as stated: the reason of the report is "insufficient samples after cleaning".
C1_AsStated ==
    (Analysed /\ Registered) =>
        /\ RanCleaner
        /\ Len(locals.df) < 8 =>
              outcome = [kind |-> "return",
                         report |-> [ok |-> FALSE,
                                     reason |-> "insufficient samples after cleaning",
                                     n |-> Len(locals.df)]]

\* a run on exactly 7 cleaned samples ended in a report
C1_Witness ==
    RanCleaner /\ Registered /\ Len(locals.df) = 7 /\ ReturnedReport /\ outcome.report.n = 7

\* C2: with a band that has no registered interval, analyze raises the error
\* naming the band and nothing has run before it (no stage was recorded, no
\* series was cleaned), for every series, also the ones gate A would stop.
C2_UndefinedBandFirst ==
    (Analysed /\ ~Registered) =>
        /\ outcome.kind = "raise"
        /\ outcome.at = "band"
        /\ outcome.name = band_type
        /\ outcome.band = BandValue(band_type)
        /\ DOMAIN stage = {}
        /\ DOMAIN locals = {}

\* a session on KAPPA whose series gate A would stop has been analysed
C2_Witness ==
    Analysed /\ band_type = "KAPPA" /\ Len(self_df) \in 1..7 /\ outcome.kind = "raise"

\* C3: the times of the cleaned series are strictly increasing.
C3_StrictlyIncreasing ==
    RanCleaner =>
        \A i \in 1..(Len(locals.df) - 1) : locals.df[i].time < locals.df[i + 1].time

\* a series out of order and with a repeated time has been cleaned to two or
\* more samples
C3_Witness ==
    /\ RanCleaner
    /\ \E i, j \in 1..Len(self_df) : i < j /\ self_df[i].time > self_df[j].time
    /\ \E i, j \in 1..Len(self_df) : i < j /\ self_df[i].time = self_df[j].time
    /\ Len(locals.df) >= 2

\* the rows of the normalized series at time t
RowsAt(t) == {i \in 1..Len(self_df) : self_df[i].time = t}

\* v is the k-th smallest amplitude of the rows at time t
IsKthSmallest(v, t, k) ==
    /\ \E i \in RowsAt(t) : self_df[i].amp = v
    /\ Cardinality({i \in RowsAt(t) : self_df[i].amp < v}) < k
    /\ Cardinality({i \in RowsAt(t) : self_df[i].amp <= v}) >= k

\* m is the median amplitude of the rows at time t
IsMedianAt(m, t) ==
    LET n == Cardinality(RowsAt(t))
        amps == {self_df[i].amp : i \in RowsAt(t)}
    IN IF n % 2 = 1
       THEN IsKthSmallest(m, t, (n + 1) \div 2)
       ELSE \E lo \in amps, hi \in amps :
               /\ IsKthSmallest(lo, t, n \div 2)
               /\ IsKthSmallest(hi, t, n \div 2 + 1)
               /\ 2 * m = lo + hi

\* C4: the cleaned series has exactly one sample for each distinct time of
\* the normalized series, and its amplitude is the median of the amplitudes
\* at that time: (a+b)/2 for two, the amplitude itself for one.
C4_MedianPerTimestamp ==
    RanCleaner =>
        LET c == locals.df
            times == {self_df[i].time : i \in 1..Len(self_df)}
        IN /\ {c[i].time : i \in 1..Len(c)} = times
           /\ Len(c) = Cardinality(times)
           /\ \A i \in 1..Len(c) :
                 LET rows == RowsAt(c[i].time)
                 IN /\ IsMedianAt(c[i].amp, c[i].time)
                    /\ Cardinality(rows) = 2 =>
                          \A j, k \in rows : j # k => 2 * c[i].amp = self_df[j].amp + self_df[k].amp
                    /\ Cardinality(rows) = 1 =>
                          \A j \in rows : c[i].amp = self_df[j].amp

\* a series with two different amplitudes at one time, and a time of its own
\* beside it, has been cleaned
C4_Witness ==
    /\ RanCleaner
    /\ \E i, j \in 1..Len(self_df) :
          /\ i # j /\ self_df[i].time = self_df[j].time /\ self_df[i].amp # self_df[j].amp
          /\ Cardinality(RowsAt(self_df[i].time)) = 2
    /\ \E i \in 1..Len(self_df) : Cardinality(RowsAt(self_df[i].time)) = 1
    /\ stage.duplicates_removed = 1

\* the cleaned times are evenly spaced
EvenlySpaced ==
    \A i \in 1..(Len(locals.df) - 1) :
        locals.df[i + 1].time - locals.df[i].time = locals.df[2].time - locals.df[1].time

\* C5 as stated, but for the text of the reason: a cleaned series of 8 to 15
\* evenly spaced samples ends in a failure report whose n is the length of
\* the filtered sequence, and every success report has n_samples >= 16.
C5_AsStated ==
    /\ (RanCleaner /\ Registered /\ Len(locals.df) \in 8..15 /\ EvenlySpaced) =>
          /\ ReturnedReport
          /\ ~outcome.report.ok
          /\ outcome.report.n = Len(locals.df)
    /\ Succeeded => outcome.report.n_samples >= 16

FailureFields == {"ok", "reason", "n"}
SuccessFields ==
    {"ok", "band", "band_range_hz", "fs_hz", "duration_s", "n_samples", "total_power",
     "band_power", "relative_band_power", "psd_f", "psd_pxx", "stages"}
StageFields ==
    {"duplicates_removed", "nonmonotonic_removed", "interpolation_dt", "fs_estimated",
     "n_regular"}

\* C6: a returned report is a failure report of exactly ok, reason and n, or
\* a success report of the full field set with the five stage diagnostics.
C6_ReportShapes ==
    ReturnedReport =>
        \/ /\ outcome.report.ok = FALSE
           /\ DOMAIN outcome.report = FailureFields
        \/ /\ outcome.report.ok = TRUE
           /\ DOMAIN outcome.report = SuccessFields
           /\ DOMAIN outcome.report.stages = StageFields
           /\ Len(outcome.report.psd_pxx) = Len(outcome.report.psd_f.num)

\* a success report has been returned
C6_Witness == Succeeded /\ outcome.report.n_samples >= 16

\* the integrator has run on the spectrum psd
Integrated == power # <<>>

\* C7: the relative band power is band power / total power when the total
\* power is positive and exactly 0 otherwise; over a non-negative power
\* vector on strictly increasing frequencies the band power never exceeds
\* the total power, so that the relative power lies in [0, 1].
C7_RelativePower ==
    Integrated =>
        LET t == power.total_power
            b == power.band_power
            r == power.relative_band_power
        IN /\ t.den > 0 /\ b.den > 0
           /\ t.num > 0 =>
                 /\ r.den > 0
                 /\ r.num * (t.num * b.den) = r.den * (b.num * t.den)
                 /\ 0 <= b.num /\ b.num * t.den <= t.num * b.den
                 /\ 0 <= r.num /\ r.num <= r.den
           /\ t.num <= 0 => r = [num |-> 0, den |-> 1]

\* a spectrum whose band holds a part of the power, neither none nor all of it
C7_Witness ==
    /\ Integrated
    /\ power.total_power.num > 0
    /\ 0 < power.relative_band_power.num
    /\ power.relative_band_power.num < power.relative_band_power.den

\* frequency i of psd lies in the half-open band
InBand(i) == psd.band[1] <= psd.f[i] /\ psd.f[i] < psd.band[2]

\* twice the trapezoidal area between the points i and i + 1 of psd
Panel2(i) == (psd.f[i + 1] - psd.f[i]) * (psd.pxx[i] + psd.pxx[i + 1])

\* the sum of the doubled areas of the panels from..Len(f)-1 whose two ends
\* both lie in the band
RECURSIVE InBandPanels2(_)
InBandPanels2(from) ==
    IF from >= Len(psd.f) THEN 0
    ELSE (IF InBand(from) /\ InBand(from + 1) THEN Panel2(from) ELSE 0)
         + InBandPanels2(from + 1)

\* C8: the band power is the trapezoidal integral over exactly the points
\* with low <= f < high (a point at low counts, a point at high does not)
\* when at least two points lie there, and exactly 0 when fewer do.
C8_HalfOpenBandPower ==
    Integrated =>
        LET inside == {i \in 1..Len(psd.f) : InBand(i)}
            b == power.band_power
        IN /\ b.den > 0
           /\ Cardinality(inside) >= 2 => 4 * b.num = InBandPanels2(1) * b.den
           /\ Cardinality(inside) < 2 => b.num = 0

\* a spectrum with a point on each edge of the band, both of positive power,
\* and a positive band power
C8_Witness ==
    /\ Integrated
    /\ \E i, j \in 1..Len(psd.f) :
          /\ psd.f[i] = psd.band[1] /\ psd.pxx[i] > 0
          /\ psd.f[j] = psd.band[2] /\ psd.pxx[j] > 0
    /\ power.band_power.num > 0

\* C9, as the code has it: the grid starts at the first cleaned time, its
\* successive differences all equal dt, and its last point is the grid point
\* nearest the last cleaned time, at most dt/2 from it (on it when the span
\* is a multiple of dt); the reported duration is (n_regular - 1) * dt.
C9_GridNearestEnd ==
    /\ (RanCleaner /\ Registered /\ Len(locals.df) >= 8) => RanResampler
    /\ RanResampler =>
          LET grid == locals.t_reg
              dt == locals.dt
              first == locals.df[1].time
              last == locals.df[Len(locals.df)].time
              dur == IF Succeeded THEN outcome.report.duration_s ELSE Ratio(0, 1)
          IN /\ stage.n_regular = Len(grid)
             /\ stage.interpolation_dt = Ratio(dt, TicksPerSec)
             /\ Len(grid) >= 1
             /\ grid[1] = first
             /\ \A k \in 1..(Len(grid) - 1) : grid[k + 1] - grid[k] = dt
             /\ 2 * Abs(grid[Len(grid)] - last) <= dt
             /\ ((last - first) % dt = 0) => grid[Len(grid)] = last
             /\ Succeeded =>
                   /\ dur.num * TicksPerSec = (stage.n_regular - 1) * dt * dur.den
                   /\ 2 * Abs(dur.num * TicksPerSec - (last - first) * dur.den) <= dt * dur.den

\* C9 as stated: the grid ends at the last original timestamp and the
\* reported duration is last minus first.
C9_AsStated ==
    RanResampler =>
        LET grid == locals.t_reg
            first == locals.df[1].time
            last == locals.df[Len(locals.df)].time
            dur == IF Succeeded THEN outcome.report.duration_s ELSE Ratio(0, 1)
        IN /\ grid[1] = first
           /\ \A k \in 1..(Len(grid) - 1) : grid[k + 1] - grid[k] = locals.dt
           /\ grid[Len(grid)] = last
           /\ Succeeded => dur.num * TicksPerSec = (last - first) * dur.den

\* a success report on an unevenly spaced series whose grid ends off the last
\* cleaned time
C9_Witness ==
    /\ RanResampler /\ Succeeded /\ ~EvenlySpaced
    /\ locals.t_reg[Len(locals.t_reg)] # locals.df[Len(locals.df)].time

\* the squared magnitudes of the coefficients X
Squares(X) == [k \in 1..Len(X) |-> SqAbs(X[k])]

\* v is the r-th smallest of the squared magnitudes sq
HasRank(sq, v, r) ==
    /\ Cardinality({k \in 1..Len(sq) : sq[k] < v}) < r
    /\ Cardinality({k \in 1..Len(sq) : sq[k] <= v}) >= r

\* the median of the magnitudes is zero: more than half of them are zero
MedianIsZero(sq) == 2 * Cardinality({k \in 1..Len(sq) : sq[k] = 0}) > Len(sq)

\* the magnitude of squared value s is at or above 3 times the median
\* magnitude (sqrt a + sqrt b) / 2, a and b the middle values of sq; exactly
\* at it when on the threshold
Reaches(sq, s, exactly) ==
    LET m == Len(sq)
    IN \E a, b \in {sq[i] : i \in 1..m} :
          /\ HasRank(sq, a, (m + 1) \div 2)
          /\ HasRank(sq, b, m \div 2 + 1)
          /\ LET l == 4 * s - 9 * (a + b)
             IN /\ l >= 0
                /\ IF exactly THEN l * l = 324 * a * b ELSE l * l >= 324 * a * b

\* C10: a pass zeroes the coefficients strictly below 3 times the median
\* magnitude and leaves the others, one exactly at the threshold included, as
\* they are; it changes nothing when the median magnitude is zero; and a
\* further pass over the result returns the result.
C10_DenoiseIdempotent ==
    Len(x_denoised) >= 1 =>
        LET y == x_denoised[1]
            X == Rfft(x_reg.num)
            Y == Rfft(y.num)
            sq == Squares(X)
        IN /\ Len(y.num) = Len(x_reg.num)
           /\ y.den > 0
           /\ \A k \in 1..Len(X) :
                 IF Reaches(sq, sq[k], FALSE)
                 THEN /\ Y[k].re * x_reg.den = X[k].re * y.den
                      /\ Y[k].im * x_reg.den = X[k].im * y.den
                 ELSE Y[k] = [re |-> 0, im |-> 0]
           /\ MedianIsZero(sq) => y = x_reg
           /\ \A p \in 2..Len(x_denoised) : x_denoised[p] = y

\* two passes over a signal with a coefficient exactly at a positive
\* threshold, whose first pass changed the signal
C10_Witness ==
    /\ Len(x_denoised) = 2
    /\ x_denoised[1] # x_reg
    /\ \E j \in 1..Len(x_denoised[1].num) : x_denoised[1].num[j] # 0
    /\ LET sq == Squares(Rfft(x_reg.num))
       IN /\ ~MedianIsZero(sq)
          /\ \E k \in 1..Len(sq) : Reaches(sq, sq[k], TRUE)

\* the call of _deduce_columns has ended
Deduced == deduced # <<>>

\* the columns among those of idx that are named like entry p of a list:
\* letter case aside, or letter for letter
Hits(p, idx, anycase) ==
    {i \in idx : IF anycase THEN Lower(columns[i].name) = Lower(p) ELSE columns[i].name = p}

\* the names a list of entries selects among the columns of idx: the columns
\* named like the first entry of the list that names any, and with no such
\* entry the first column of idx
Selected(order, idx, anycase) ==
    LET named == {e \in 1..Len(order) : Hits(order[e], idx, anycase) # {}}
        first == CHOOSE e \in named : \A d \in named : e <= d
    IN IF named # {} THEN {columns[i].name : i \in Hits(order[first], idx, anycase)}
       ELSE {columns[i].name : i \in {j \in idx : \A h \in idx : j <= h}}

\* C11 as stated: with no time column named by the caller, the time column is
\* the column named, letter case aside, like the first entry of the priority
\* list that names any column; with no such entry it is the first column of
\* numeric or date/time type; with no such column the call raises the
\* column-resolution error.
C11_AsStated ==
    (Deduced /\ time_col = None) =>
        LET all == 1..Len(columns)
            named == {e \in 1..Len(priority) : Hits(priority[e], all, TRUE) # {}}
            first == CHOOSE e \in named : \A d \in named : e <= d
            typed == {i \in all : IsNumber(columns[i].dtype) \/ IsDatetime(columns[i].dtype)}
            found == IF named # {}
                     THEN {columns[i].name : i \in Hits(priority[first], all, TRUE)}
                     ELSE {columns[i].name : i \in {j \in typed : \A h \in typed : j <= h}}
        IN IF found = {} THEN deduced = CouldNotDeduce("time")
           ELSE /\ deduced # CouldNotDeduce("time")
                /\ deduced.kind = "return" => deduced.time \in found

\* C12 as stated: with no amplitude column named by the caller, the amplitude
\* column is a numeric column other than the time column, the one named like
\* the first entry of the amplitude list that names such a column (letter for
\* letter or letter case aside) and with no such entry the first such column;
\* with no such column the call raises the column-resolution error.
C12_AsStated ==
    (Deduced /\ amplitude_col = None /\ deduced # CouldNotDeduce("time")) =>
        LET time == IF time_col = None THEN DeduceTime(columns) ELSE time_col
            remaining == {i \in 1..Len(columns) :
                             IsNumber(columns[i].dtype) /\ columns[i].name # time}
        IN IF remaining = {} THEN deduced = CouldNotDeduce("amplitude")
           ELSE /\ deduced.kind = "return"
                /\ deduced.amplitude \in Selected(heuristic_order, remaining, TRUE)
                                          \cup Selected(heuristic_order, remaining, FALSE)

\* the constructor has ended
Constructed == pc # "new"

\* C13 as stated: the constructor never fails, and the series it leaves holds
\* exactly the rows of the table whose time and amplitude are both valid, in
\* table order.
C13_AsStated ==
    Constructed =>
        LET kept == SelectSeq(table, LAMBDA r : r.time.valid /\ r.amp.valid)
        IN /\ pc # "failed"
           /\ Len(self_df) = Len(kept)
           /\ \A i \in 1..Len(kept) : self_df[i].amp = kept[i].amp.v

\* the successive differences of the cleaned times of the last run
CleanedSteps == Diff(Times(locals.df))

\* C14: when the resampler is reached, dt is the median of the successive
\* differences of the cleaned times and is positive (so it is not the mean
\* step of the fallback unless the two agree), the rate is its positive
\* reciprocal, the grid is not empty, and the stage records dt, the rate and
\* the grid length.
C14_MedianStep ==
    /\ (RanCleaner /\ Registered /\ Len(locals.df) >= MinCleanSamples) => RanResampler
    /\ RanResampler =>
          LET steps == CleanedSteps
              m == Len(steps)
              dt == locals.dt
              fs == stage.fs_estimated
          IN /\ \A i \in 1..m : steps[i] > 0
             /\ \E a, b \in {steps[i] : i \in 1..m} :
                   /\ HasRank(steps, a, (m + 1) \div 2)
                   /\ HasRank(steps, b, m \div 2 + 1)
                   /\ 2 * dt = a + b
             /\ dt > 0
             /\ fs.num > 0 /\ fs.den > 0
             /\ fs.num * dt = fs.den * TicksPerSec
             /\ stage.interpolation_dt.num * TicksPerSec = dt * stage.interpolation_dt.den
             /\ stage.interpolation_dt.den > 0
             /\ Len(locals.t_reg) >= 1
             /\ stage.n_regular = Len(locals.t_reg)
             /\ DOMAIN stage = StageFields

\* the resampler has run on a series whose median step is not its mean step
C14_Witness ==
    /\ RanResampler
    /\ locals.dt * (Len(locals.df) - 1)
          # locals.df[Len(locals.df)].time - locals.df[1].time
    /\ \E i, j \in 1..Len(CleanedSteps) : CleanedSteps[i] # CleanedSteps[j]

\* the distinct times of the normalized series
DistinctTimes == {self_df[i].time : i \in 1..Len(self_df)}

\* C15: duplicates_removed is the number of normalized rows less the number
\* of distinct times, nonmonotonic_removed is 0, and the two counts and the
\* cleaned sample count add up to the number of normalized rows.
C15_CountsAddUp ==
    RanCleaner =>
        /\ stage.duplicates_removed = Len(self_df) - Cardinality(DistinctTimes)
        /\ stage.nonmonotonic_removed = 0
        /\ Len(self_df) = stage.duplicates_removed + stage.nonmonotonic_removed
                             + Len(locals.df)

\* a series with repeated times, given out of order, has been cleaned
C15_Witness ==
    /\ RanCleaner
    /\ stage.duplicates_removed >= 1
    /\ Len(locals.df) >= 2
    /\ \E i \in 1..(Len(self_df) - 1) : self_df[i].time > self_df[i + 1].time

\* C16 as stated: the filter returns a sequence as long as its input in both
\* of its branches, so that a run that reaches it goes on to gate B and ends
\* in a report on as many samples as the grid has points.
C16_AsStated ==
    RanResampler =>
        /\ ReturnedReport
        /\ outcome.report.ok => outcome.report.n_samples = stage.n_regular
        /\ ~outcome.report.ok => outcome.report.n = stage.n_regular

\* the band [b, c) above the band [a, b) of psd, c beyond the last frequency
UpperBand == <<psd.band[2], psd.f[Len(psd.f)] + 1>>

\* the frequencies of psd inside the band [lo, hi)
Inside(lo, hi) == {i \in 1..Len(psd.f) : lo <= psd.f[i] /\ psd.f[i] < hi}

\* the band of psd and the band above it cover the spectrum, and each holds
\* at least two frequencies
TwoBandsCover ==
    /\ psd.band[1] <= psd.f[1]
    /\ Cardinality(Inside(psd.band[1], psd.band[2])) >= 2
    /\ Cardinality(Inside(UpperBand[1], UpperBand[2])) >= 2

\* C17: for two adjoining bands [a, b) and [b, c) that cover the spectrum and
\* hold at least two frequencies each, the two band powers add up to no more
\* than the total power, and fall short of it by the area of the one
\* trapezoid between the last frequency below b and the first one from b on.
C17_BandsAddUp ==
    (Integrated /\ TwoBandsCover) =>
        LET lower == power.band_power
            upper == Powers(psd.pxx, psd.f, 1, UpperBand).band_power
            total == power.total_power
            k == Cardinality(Inside(psd.band[1], psd.band[2]))
            gap2 == Panel2(k)
        IN /\ lower.den > 0 /\ upper.den > 0 /\ total.den > 0
           /\ (lower.num * upper.den + upper.num * lower.den) * total.den
                 <= total.num * lower.den * upper.den
           /\ 4 * (lower.num * upper.den + upper.num * lower.den) * total.den
                 + gap2 * lower.den * upper.den * total.den
                 = 4 * total.num * lower.den * upper.den

\* two adjoining bands of positive power with a trapezoid of positive area
\* between them
C17_Witness ==
    /\ Integrated
    /\ TwoBandsCover
    /\ power.band_power.num > 0
    /\ Powers(psd.pxx, psd.f, 1, UpperBand).band_power.num > 0
    /\ Panel2(Cardinality(Inside(psd.band[1], psd.band[2]))) > 0
    /\ \E i, j \in 1..Len(psd.pxx) : psd.pxx[i] # psd.pxx[j]

----------------------------------------------------------------------------
(* Properties of the live acquisition.                                     *)

RECURSIVE Flatten(_)
Flatten(batches) ==
    IF batches = <<>> THEN <<>> ELSE Head(batches) \o Flatten(Tail(batches))

\* the batches the thread has put on the queue so far, oldest first
PutSoFar == drained \o queue

\* stop() has been called on the started controller
StopCalled == app.controller /\ thread # "none" /\ ~running

\* the thread has ended, and close() was called once for an open() that
\* succeeded
Terminated == thread = "dead" /\ driver.closed = driver.opened

\* C19: after stop() is called on a started controller the acquisition
\* thread eventually terminates, so that join() returns, with driver.close()
\* called exactly once for the driver.open() that succeeded, in every
\* interleaving: also when the queue is full and nothing drains it any more,
\* and when the driver yields no further sample.
C19_AsStated == StopCalled ~> Terminated

\* C20: every batch put on the queue holds exactly batch_size samples in the
\* order the driver yielded them, the batches partition the stream with no
\* sample duplicated or skipped, a batch on the queue is never altered, and
\* every sample the running controller took from the driver is delivered to
\* the consumer in some batch, those of the last, partly filled batch at
\* stop() included: once the thread has ended and on_stop has returned, no
\* sample taken is missing from the drained batches.
C20_AsStated ==
    /\ \A i \in DOMAIN PutSoFar : Len(PutSoFar[i]) = batch_size
    /\ Flatten(PutSoFar) = [n \in 1..Len(Flatten(PutSoFar)) |-> n]
    /\ (thread = "dead" /\ ~app.controller)
          => \A n \in 1..taken : \E i \in DOMAIN drained : \E j \in DOMAIN drained[i] : drained[i][j] = n

=============================================================================
